---- MODULE Spec2Model ----
(***************************************************************************)
(* State-machine model of assay_spec_utils: the merge engine               *)
(* generate_assays (parser.py) with its helper _resolve_attributes and     *)
(* the AssaySpec validation it ends with (model.py).                       *)
(*                                                                         *)
(* Python values are modelled as follows.                                  *)
(*   dict            a record (a function on its keys); a key that may be  *)
(*                   absent is absent from DOMAIN                          *)
(*   list           a sequence; Python index i is index i+1 here           *)
(*   Optional[x]     <<>> for None, <<x>> for a value                      *)
(*   str term id     a sequence of character codes, so that s[0] and the   *)
(*                   ordering of sorted() are what Python computes         *)
(*   term entry      [tup, id]: tup = TRUE is the declared (termId, name)  *)
(*                   tuple, tup = FALSE is a bare str                      *)
(*   parameter       the tuple <<category, name, value, unit>>             *)
(***************************************************************************)
EXTENDS Integers, Sequences, FiniteSets, TLC

VARIABLES
    templates,           \* argument: templateId -> template dict (mutable object)
    protocols,           \* argument: list of protocol dicts (mutable objects)
    attributes,          \* argument: attributeId -> attribute dict
    target_term,         \* argument: accessionId -> term lists per category
    args0,               \* the values of templates and protocols before the first call
    pc,                  \* position: "idle", "protocol", "readout", "assay"
    pidx, ridx, aidx,    \* loop positions of the three nested for loops
    rcds,                \* local: the records appended so far
    templates_resolved,  \* local: memo of attribute-expanded templates
    templates_readouts,  \* local: memo of template readouts
    spec,                \* local: protocol-level baseline
    readouts,            \* local: the readouts iterated for the protocol
    sp,                  \* local: readout-level spec
    cand,                \* the dicts handed to parse_spec(s, AssaySpec) in this call
    outcomes             \* one entry per finished call: returned list or exception

\* process_all (run.py) with fetch_target_terms (parser.py) and
\* uniprot_target_terms (datasource.py)
VARIABLES
    rpc,                 \* position in process_all: "idle", "cache", "fetch", ...
    runs,                \* one entry per ended run of process_all
    conf,                \* what load_protocols and load_templates yielded
    work,                \* fetch_target_terms: the target occurrences still to fetch
    fetched,             \* fetch_target_terms: target_term, accessionId -> term lists
    fetched_dict,        \* fetch_target_terms: term_dict, term id -> name
    uniprot_requests,    \* the requests sent to UniProt in this enrichment phase
    chebi_requests,      \* the name lookups sent to EBI-OLS in this enrichment phase
    fs,                  \* output_dir: the three artifact files
    merges               \* one entry per call of generate_assays by process_all

\* convert_conc_units (util.py)
VARIABLES
    conc_in,             \* the arguments value and unit
    conc_out             \* the outcome of the call: returned pair or exception

assayvars == <<templates, protocols, attributes, target_term, args0, pc, pidx, ridx,
               aidx, rcds, templates_resolved, templates_readouts, spec, readouts,
               sp, cand, outcomes>>

runvars == <<rpc, runs, conf, work, fetched, fetched_dict, uniprot_requests,
             chebi_requests, fs, merges>>

concvars == <<conc_in, conc_out>>

vars == <<assayvars, runvars, concvars>>

\* Number of successive calls of generate_assays on the same argument objects.
MaxCalls == 2

None == <<>>
Some(x) == <<x>>
IsNone(x) == Len(x) = 0

(***************************************************************************)
(* Term ids and their order                                                *)
(***************************************************************************)
Decl(id) == [tup |-> TRUE, id |-> id]
Str(id) == [tup |-> FALSE, id |-> id]

\* t[0]: the term id of a (termId, name) tuple, the first character of a str.
CanItem0(t) == t.tup \/ Len(t.id) > 0
Item0(t) == IF t.tup THEN t.id ELSE <<t.id[1]>>

\* Python's str ordering: by code point, a proper prefix first.
StrLess(a, b) ==
    \E i \in 1..(Len(a) + 1) :
        /\ \A j \in 1..(i - 1) : j <= Len(b) /\ a[j] = b[j]
        /\ \/ i = Len(a) + 1 /\ Len(b) > Len(a)
           \/ i <= Len(a) /\ i <= Len(b) /\ a[i] < b[i]

RECURSIVE SortedIds(_)
SortedIds(S) ==
    IF S = {} THEN <<>>
    ELSE LET m == CHOOSE x \in S : \A y \in S : x = y \/ StrLess(x, y)
         IN  <<m>> \o SortedIds(S \ {m})

Range(q) == {q[i] : i \in 1..Len(q)}

\* sorted(set(terms)) over a list of str
SortedSet(terms) ==
    LET ids == SortedIds({t.id : t \in Range(terms)})
    IN  [i \in 1..Len(ids) |-> Str(ids[i])]

(***************************************************************************)
(* Exceptions: the type and its argument                                   *)
(***************************************************************************)
NoExc == [type |-> "none", arg |-> ""]
KeyError(k) == [type |-> "KeyError", arg |-> k]
IndexError == [type |-> "IndexError", arg |-> "index out of range"]
ValueError(msg) == [type |-> "ValueError", arg |-> msg]
TypeError(msg) == [type |-> "TypeError", arg |-> msg]
ValidationError(what) == [type |-> "ValidationError", arg |-> what]

\* d[k] = v on a dict
Put(d, k, v) == [x \in DOMAIN d \cup {k} |-> IF x = k THEN v ELSE d[x]]

(***************************************************************************)
(* _resolve_attributes                                                     *)
(***************************************************************************)
\* [t[0] for t in terms]
FirstItems(terms) == [i \in 1..Len(terms) |-> Str(Item0(terms[i]))]

\* The attribute's terms put before the fragment's instead of after.
MutExtendTermsBefore(own, atms) == atms \o own

\* spec["terms"] = [*spec["terms"], *atms]
ExtendTerms(own, atms) == own \o atms

\* spec["parameters"] = [*spec["parameters"], *attr["parameters"]]
ExtendParameters(own, aps) == own \o aps

\* The for loop over spec["attributes"] from position i on.  The result is
\* the dict as the loop leaves it and the exception that ended it, if any.
RECURSIVE ResolveLoop(_, _, _)
ResolveLoop(sd, gattrs, i) ==
    IF i > Len(sd.attributes) THEN [spec |-> sd, exc |-> NoExc]
    ELSE LET attrid == sd.attributes[i] IN
         IF attrid \notin DOMAIN gattrs THEN [spec |-> sd, exc |-> KeyError(attrid)]
         ELSE LET attr == gattrs[attrid] IN
              IF \E t \in Range(attr.terms) : ~CanItem0(t)
              THEN [spec |-> sd, exc |-> IndexError]
              ELSE ResolveLoop(
                     [sd EXCEPT !.terms = ExtendTerms(@, FirstItems(attr.terms)),
                                !.parameters = ExtendParameters(@, attr.parameters)],
                     gattrs, i + 1)

ResolveAttributes(sd, gattrs) ==
    IF \E t \in Range(sd.terms) : ~CanItem0(t)
    THEN [spec |-> sd, exc |-> IndexError]
    ELSE ResolveLoop([sd EXCEPT !.terms = FirstItems(@)], gattrs, 1)

(***************************************************************************)
(* generate_assays: applying the template and the protocol-level fields    *)
(***************************************************************************)
EmptySpec == [targets |-> <<>>, terms |-> <<>>, parameters |-> <<>>]
EmptyMemo == [x \in {} |-> <<>>]

\* Lines 150-169.  The result carries the template dict as the step leaves
\* it (tmpl), the two memos, the baseline spec and the template readouts.
ApplyTemplate(protocol, tmpls, resolved, treadouts, gattrs) ==
    LET same == [exc |-> NoExc, templates |-> tmpls, resolved |-> resolved,
                 treadouts |-> treadouts, spec |-> EmptySpec, readouts |-> <<>>]
    IN
    IF IsNone(protocol.templateId) THEN same
    ELSE LET tmpl_id == protocol.templateId[1] IN
         IF tmpl_id \in DOMAIN resolved
         THEN [same EXCEPT !.spec = resolved[tmpl_id],
                           !.readouts = treadouts[tmpl_id]]
         ELSE IF tmpl_id \notin DOMAIN tmpls
         THEN [same EXCEPT !.exc = KeyError(tmpl_id)]
         ELSE LET r == ResolveAttributes(tmpls[tmpl_id], gattrs)
                  tmpl == r.spec
                  entry == [targets |-> tmpl.targets, terms |-> tmpl.terms,
                            parameters |-> tmpl.parameters]
              IN  IF r.exc # NoExc
                  THEN [same EXCEPT !.exc = r.exc,
                                    !.templates = [tmpls EXCEPT ![tmpl_id] = tmpl]]
                  ELSE [exc |-> NoExc,
                        templates |-> [tmpls EXCEPT ![tmpl_id] = tmpl],
                        resolved |-> Put(resolved, tmpl_id, entry),
                        treadouts |-> Put(treadouts, tmpl_id, tmpl.readouts),
                        spec |-> entry,
                        readouts |-> tmpl.readouts]

\* Lines 172-173: a non-empty protocol targets list replaces the baseline's.
OverrideTargets(base, own) == IF Len(own) > 0 THEN own ELSE base

\* The template's readouts taking precedence over the protocol's.
MutTemplateReadoutsFirst(tmplReadouts, protocol) ==
    IF Len(tmplReadouts) > 0 THEN tmplReadouts ELSE protocol.readouts

\* Lines 178-179: non-empty protocol readouts replace the template's.
SelectReadouts(tmplReadouts, protocol) ==
    IF Len(protocol.readouts) > 0 THEN protocol.readouts ELSE tmplReadouts

\* The fail-fast condition without its test of the assays.
MutNoReadouts(rds, protocol) == Len(rds) = 0

\* Line 180: the fail-fast condition.
AssaysWithoutReadouts(rds, protocol) ==
    Len(rds) = 0 /\ Len(protocol.assays) > 0

\* The baseline being the memo entry itself and not a copy of it.
MutAliasedMemo(resolved, protocol, pspec) ==
    IF IsNone(protocol.templateId) THEN resolved
    ELSE [resolved EXCEPT ![protocol.templateId[1]] = pspec]

\* Line 168: spec is a pickle copy of the memo entry, so what lines 172-177
\* do to spec (pspec is spec after them) leaves the memo as it was.
MemoAfterProtocol(resolved, protocol, pspec) == resolved

\* Lines 171-181.  base is the spec ApplyTemplate produced.
ApplyProtocol(protocol, base, tmplReadouts, gattrs) ==
    LET spec1 == [base EXCEPT !.targets = OverrideTargets(@, protocol.targets)]
        r == ResolveAttributes(protocol, gattrs)
        prot == r.spec
        spec2 == Put([spec1 EXCEPT !.terms = @ \o prot.terms,
                                   !.parameters = @ \o prot.parameters],
                     "protocolId", prot.protocolId)
        rds == SelectReadouts(tmplReadouts, prot)
    IN  IF r.exc # NoExc
        THEN [exc |-> r.exc, protocol |-> prot, spec |-> spec1, readouts |-> <<>>]
        ELSE IF AssaysWithoutReadouts(rds, prot)
        THEN [exc |-> ValueError("Assays defined but no readouts found."),
              protocol |-> prot, spec |-> spec2, readouts |-> rds]
        ELSE [exc |-> NoExc, protocol |-> prot, spec |-> spec2, readouts |-> rds]

(***************************************************************************)
(* generate_assays: the readout level (lines 184-202)                      *)
(***************************************************************************)
\* Lines 190-195: the four term lists of every resolved target, in order.
RECURSIVE TargetTerms(_, _, _)
TargetTerms(targets, tt, i) ==
    IF i > Len(targets) THEN [terms |-> <<>>, exc |-> NoExc]
    ELSE LET acc == targets[i].accessionId IN
         IF acc \notin DOMAIN tt THEN [terms |-> <<>>, exc |-> KeyError(acc)]
         ELSE LET rest == TargetTerms(targets, tt, i + 1)
                  own == tt[acc].Function \o tt[acc].Process
                         \o tt[acc].Component \o tt[acc].ChEBI
              IN  [terms |-> own \o rest.terms, exc |-> rest.exc]

\* Lines 201-202: the two readout fields copied into the readout-level spec.
CopyReadoutFields(spd, ro) ==
    IF "readoutType" \notin DOMAIN ro
    THEN [spec |-> Put(spd, "readoutId", ro.readoutId),
          exc |-> KeyError("readoutType")]
    ELSE [spec |-> Put(Put(spd, "readoutId", ro.readoutId),
                       "readoutType", ro.readoutType),
          exc |-> NoExc]

\* Lines 185-202 for one readout; base is the protocol-level spec.
ApplyReadout(base, readout, tt, gattrs) ==
    LET sp1 == [base EXCEPT !.targets = OverrideTargets(@, readout.targets)]
        tg == TargetTerms(sp1.targets, tt, 1)
        sp2 == [sp1 EXCEPT !.terms = @ \o tg.terms]
        r == ResolveAttributes(readout, gattrs)
        ro == r.spec
        sp3 == [sp2 EXCEPT !.terms = @ \o ro.terms,
                           !.parameters = @ \o ro.parameters]
        c == CopyReadoutFields(sp3, ro)
    IN  IF tg.exc # NoExc THEN [exc |-> tg.exc, sp |-> sp1]
        ELSE IF r.exc # NoExc THEN [exc |-> r.exc, sp |-> sp2]
        ELSE [exc |-> c.exc, sp |-> c.spec]

(***************************************************************************)
(* generate_assays: the assay level (lines 205-255)                        *)
(***************************************************************************)
\* Lines 217-221: one entry per sub-experiment, its value for this readout.
RECURSIVE SubExperimentOf(_, _, _)
SubExperimentOf(subs, r, i) ==
    IF i > Len(subs) THEN [list |-> <<>>, exc |-> NoExc]
    ELSE IF r > Len(subs[i].subExpValues) THEN [list |-> <<>>, exc |-> IndexError]
    ELSE LET rest == SubExperimentOf(subs, r, i + 1)
         IN  [list |-> <<[subExpKey |-> subs[i].subExpKey,
                          subExpValue |-> subs[i].subExpValues[r]]>> \o rest.list,
              exc |-> rest.exc]

\* Lines 209-229 for one datasource d and readout position r: skip is the
\* continue of a null slot, newd the entry appended to data.
SliceDatasource(d, r) ==
    LET none == [skip |-> TRUE, newd |-> [sourceType |-> d.sourceType], exc |-> NoExc]
    IN
    IF d.sourceType = "Screener"
    THEN IF r > Len(d.layerIndices) THEN [none EXCEPT !.exc = IndexError]
         ELSE IF IsNone(d.layerIndices[r]) THEN none
         ELSE LET n1 == [sourceType |-> d.sourceType, sessionId |-> d.sessionId,
                         layerIndex |-> d.layerIndices[r]]
                  sub == SubExperimentOf(d.subExperiments, r, 1)
                  n2 == IF Len(d.subExperiments) > 0
                        THEN Put(n1, "subExperiment", sub.list) ELSE n1
              IN  IF Len(d.subExperiments) > 0 /\ sub.exc # NoExc
                  THEN [none EXCEPT !.exc = sub.exc]
                  ELSE [skip |-> FALSE,
                        newd |-> Put(n2, "sampleMapping", d.sampleMapping),
                        exc |-> NoExc]
    ELSE IF d.sourceType = "CSV"
    THEN IF r > Len(d.valueColumns) THEN [none EXCEPT !.exc = IndexError]
         ELSE IF IsNone(d.valueColumns[r]) THEN none
         ELSE [skip |-> FALSE,
               newd |-> [sourceType |-> d.sourceType, sourcePath |-> d.sourcePath,
                         sampleIdColumn |-> d.sampleIdColumn,
                         valueColumn |-> d.valueColumns[r],
                         sampleMapping |-> d.sampleMapping],
               exc |-> NoExc]
    ELSE [skip |-> FALSE,
          newd |-> [sourceType |-> d.sourceType, sampleMapping |-> d.sampleMapping],
          exc |-> NoExc]

\* Lines 207-229: data, the entries of the datasources with a slot for r.
RECURSIVE SliceData(_, _, _)
SliceData(dss, r, i) ==
    IF i > Len(dss) THEN [data |-> <<>>, exc |-> NoExc]
    ELSE LET one == SliceDatasource(dss[i], r) IN
         IF one.exc # NoExc THEN [data |-> <<>>, exc |-> one.exc]
         ELSE LET rest == SliceData(dss, r, i + 1)
              IN  [data |-> (IF one.skip THEN <<>> ELSE <<one.newd>>) \o rest.data,
                   exc |-> rest.exc]

Reverse(q) == [i \in 1..Len(q) |-> q[Len(q) + 1 - i]]

\* Lines 243-248: scan ps from position i, keeping the first entry of a key.
RECURSIVE KeepFirst(_, _, _)
KeepFirst(ps, i, newpks) ==
    IF i > Len(ps) THEN <<>>
    ELSE LET k == <<ps[i][1], ps[i][2]>> IN
         IF k \in newpks THEN KeepFirst(ps, i + 1, newpks)
         ELSE <<ps[i]>> \o KeepFirst(ps, i + 1, newpks \cup {k})

\* Lines 243-249.
OverrideParameters(ps) == Reverse(KeepFirst(Reverse(ps), 1, {}))

\* AssaySpec (model.py:153-168): extra fields are forbidden, four fields are
\* required, and a sub-experiment value must be a str.
AssaySpecFields ==
    {"protocolId", "assayId", "readoutId", "readoutMode", "readoutRange",
     "valueType", "targets", "terms", "parameters", "datasources"}

AssaySpecRequired == {"protocolId", "assayId", "readoutId", "datasources"}

ValidAssaySpecData(d) ==
    "subExperiment" \in DOMAIN d =>
        \A i \in 1..Len(d.subExperiment) : ~IsNone(d.subExperiment[i].subExpValue)

\* parse_spec(s, AssaySpec): validation, then model_dump with the defaults.
ParseAssaySpec(sd) ==
    IF ~(DOMAIN sd \subseteq AssaySpecFields)
    THEN [exc |-> ValidationError("extra"), rcd |-> sd]
    ELSE IF ~(AssaySpecRequired \subseteq DOMAIN sd)
    THEN [exc |-> ValidationError("missing"), rcd |-> sd]
    ELSE IF \E i \in 1..Len(sd.datasources) : ~ValidAssaySpecData(sd.datasources[i])
    THEN [exc |-> ValidationError("subExpValue"), rcd |-> sd]
    ELSE [exc |-> NoExc,
          rcd |-> Put(Put(sd, "readoutMode",
                          IF "readoutMode" \in DOMAIN sd THEN sd.readoutMode
                          ELSE "inhibition"),
                      "readoutRange",
                      IF "readoutRange" \in DOMAIN sd THEN sd.readoutRange
                      ELSE <<0, 100>>)]

\* Lines 232-251 for one assay: the dict handed to parse_spec.
FinalizeAssay(base, assay, data, gattrs) ==
    LET s1 == Put(base, "datasources", data)
        r == ResolveAttributes(assay, gattrs)
        asy == r.spec
        s2 == [s1 EXCEPT !.terms = SortedSet(@ \o asy.terms),
                         !.parameters = OverrideParameters(@ \o asy.parameters)]
    IN  [exc |-> r.exc,
         s |-> Put(Put(s2, "assayId", asy.assayId), "valueType", asy.valueType)]

\* Lines 206-255 for one assay and readout position r.  emitted is the list
\* of records appended (none on a skip), tried the dicts handed to parse_spec.
ApplyAssay(base, assay, r, gattrs) ==
    LET sl == SliceData(assay.datasources, r, 1)
        f == FinalizeAssay(base, assay, sl.data, gattrs)
        v == ParseAssaySpec(f.s)
        nothing == [exc |-> NoExc, emitted |-> <<>>, tried |-> <<>>]
    IN  IF sl.exc # NoExc THEN [nothing EXCEPT !.exc = sl.exc]
        ELSE IF Len(sl.data) = 0 THEN nothing
        ELSE IF f.exc # NoExc THEN [nothing EXCEPT !.exc = f.exc]
        ELSE IF v.exc # NoExc THEN [nothing EXCEPT !.exc = v.exc, !.tried = <<f.s>>]
        ELSE [exc |-> NoExc, emitted |-> <<v.rcd>>, tried |-> <<f.s>>]

(***************************************************************************)
(* The arguments the calls are made on                                     *)
(***************************************************************************)
IdA == <<1>>
IdB == <<2>>
IdC == <<3>>
IdD == <<4>>
IdAB == <<1, 2>>
IdEmpty == <<>>

Param(category, name, value, unit) == <<category, name, value, unit>>
Target(acc) == [sourceType |-> "UniProt", accessionId |-> acc]

\* The attribute registry (load_attributes): attributeId -> Attribute.
Attributes ==
    [a1 |-> [attributeId |-> "a1",
             terms |-> <<Decl(IdC), Decl(IdA)>>,
             parameters |-> <<Param("temperature", "incubation", 25, "degC")>>],
     a2 |-> [attributeId |-> "a2",
             terms |-> <<Decl(IdAB)>>,
             parameters |-> <<Param("temperature", "incubation", 37, "degC"),
                             Param("time", "read", 10, "min")>>]]

\* The target-term mapping (fetch_target_terms): accessionId -> term lists.
TargetTerm ==
    [P1 |-> [Function |-> <<Str(IdB)>>, Process |-> <<Str(IdD)>>,
             Component |-> <<>>, ChEBI |-> <<Str(IdA)>>],
     P2 |-> [Function |-> <<>>, Process |-> <<Str(IdAB)>>,
             Component |-> <<Str(IdC)>>, ChEBI |-> <<>>]]

\* What one level declares: targets, attribute ids, terms, parameters.
Fragments ==
    [none  |-> [targets |-> <<>>, attributes |-> <<>>, terms |-> <<>>,
                parameters |-> <<>>],
     one   |-> [targets |-> <<Target("P1")>>, attributes |-> <<"a1">>,
                terms |-> <<Decl(IdB), Decl(IdA), Decl(IdB)>>,
                parameters |-> <<Param("pH", "pH", 70, "")>>],
     two   |-> [targets |-> <<Target("P2")>>, attributes |-> <<"a2", "a1">>,
                terms |-> <<Decl(IdAB)>>,
                parameters |-> <<Param("pH", "pH", 65, ""),
                                 Param("time", "read", 25, "min")>>],
     noattr |-> [targets |-> <<>>, attributes |-> <<"a1", "ax">>,
                terms |-> <<Decl(IdD)>>, parameters |-> <<>>],
     blank |-> [targets |-> <<Target("P9")>>, attributes |-> <<>>,
                terms |-> <<Decl(IdEmpty)>>, parameters |-> <<>>]]

\* A Readout dict (model.py:47-54).  typed adds the key readoutType, which
\* generate_assays reads (parser.py:202) and the Readout model does not have.
Readout(id, f, typed) ==
    LET ro == [readoutId |-> id, readoutMode |-> "inhibition",
               readoutRange |-> <<0, 100>>, targets |-> f.targets,
               attributes |-> f.attributes, terms |-> f.terms,
               parameters |-> f.parameters]
    IN  IF typed THEN Put(ro, "readoutType", "inhibition") ELSE ro

\* A DataSource dict (model.py:74-94), valid under check_source_type.
Screener(session, layers, subs) ==
    [sourceType |-> "Screener", sessionId |-> Some(session),
     layerIndices |-> layers, subExperiments |-> subs, sourcePath |-> None,
     sampleIdColumn |-> None, valueColumns |-> <<>>, sampleMapping |-> None]

Csv(path, cols) ==
    [sourceType |-> "CSV", sessionId |-> None, layerIndices |-> <<>>,
     subExperiments |-> <<>>, sourcePath |-> Some(path),
     sampleIdColumn |-> Some("id"), valueColumns |-> cols,
     sampleMapping |-> None]

\* An Assay dict (model.py:97-103).
Assay(id, f, dss) ==
    [assayId |-> id, valueType |-> "AC50", attributes |-> f.attributes,
     terms |-> f.terms, parameters |-> f.parameters, datasources |-> dss]

\* A ProtocolTemplate dict (model.py:57-66).
Template(id, f, rds) ==
    [templateId |-> id, targets |-> f.targets, attributes |-> f.attributes,
     terms |-> f.terms, parameters |-> f.parameters, readouts |-> rds]

\* An AssayProtocol dict (model.py:125-134) with the protocolId load_protocols adds.
Protocol(id, tid, f, rds, asys) ==
    [protocolId |-> id, templateId |-> tid, targets |-> f.targets,
     attributes |-> f.attributes, terms |-> f.terms,
     parameters |-> f.parameters, readouts |-> rds, assays |-> asys]

ReadoutLists(typed) ==
    { <<>>,
      <<Readout("r1", Fragments.none, typed)>>,
      <<Readout("r1", Fragments.none, typed), Readout("r2", Fragments.two, typed),
        Readout("r3", Fragments.one, typed)>> }

\* The readouts lists of a template: ids of their own, so that a readout is
\* known by its id to be the template's or the protocol's.
TemplateReadoutLists(typed) ==
    { <<>>,
      <<Readout("q1", Fragments.two, typed)>>,
      <<Readout("q1", Fragments.none, typed), Readout("q2", Fragments.one, typed),
        Readout("q3", Fragments.two, typed)>> }

AssayLists ==
    { <<>>,
      <<Assay("x1", Fragments.one,
              <<Screener("s1", <<Some(5), None, Some(7)>>, <<>>)>>)>>,
      <<Assay("x1", Fragments.none,
              <<Screener("s1", <<Some(3), None, None>>,
                         <<[subExpKey |-> "plate",
                            subExpValues |-> <<Some("a"), Some("b"), Some("c")>>]>>),
                Csv("f.csv", <<Some("c1"), Some("c2"), None>>)>>),
        Assay("x2", Fragments.two,
              <<Screener("s2", <<Some(1), Some(2), Some(3)>>, <<>>)>>)>>,
      <<Assay("x3", Fragments.none, <<Screener("s3", <<Some(9)>>, <<>>)>>)>>,
      <<Assay("x4", Fragments.one,
              <<Screener("s4", <<None, None, Some(4)>>, <<>>)>>)>>,
      <<Assay("x5", Fragments.none, <<Screener("s5", <<None>>, <<>>)>>)>>,
      <<Assay("x6", Fragments.one,
              <<Screener("s6", <<None, None, Some(6)>>, <<>>)>>),
        Assay("x7", Fragments.none,
              <<Screener("s7", <<Some(4), None, None>>, <<>>)>>)>>,
      <<Assay("x8", Fragments.none,
              <<Screener("s8", <<None, None, Some(8)>>, <<>>)>>)>> }

(***************************************************************************)
(* The variables of a program that is not running                          *)
(***************************************************************************)
NoFile == [st |-> "absent", data |-> <<>>]
EmptyDir == [targets |-> NoFile, assays |-> NoFile, termdict |-> NoFile]
EmptyDict == [x \in {} |-> <<>>]

RunAtRest ==
    /\ rpc = "idle"
    /\ runs = <<>>
    /\ conf = [protocols |-> <<>>, templates |-> EmptyDict]
    /\ work = <<>>
    /\ fetched = EmptyDict
    /\ fetched_dict = {}
    /\ uniprot_requests = <<>>
    /\ chebi_requests = <<>>
    /\ fs = EmptyDir
    /\ merges = <<>>

NotCalled == [kind |-> "none"]

ConcAtRest ==
    /\ conc_in = [value |-> [n |-> 0, d |-> 1, e |-> 0], unit |-> "M"]
    /\ conc_out = NotCalled

AssaysAtRest ==
    /\ templates = EmptyDict
    /\ protocols = <<>>
    /\ attributes = Attributes
    /\ target_term = EmptyDict
    /\ args0 = [templates |-> EmptyDict, protocols |-> <<>>]
    /\ pc = "idle"
    /\ pidx = 0 /\ ridx = 0 /\ aidx = 0
    /\ rcds = <<>>
    /\ templates_resolved = EmptyMemo
    /\ templates_readouts = EmptyMemo
    /\ spec = EmptySpec
    /\ readouts = <<>>
    /\ sp = EmptySpec
    /\ cand = <<>>
    /\ outcomes = <<>>

(***************************************************************************)
(* The state machine of generate_assays                                    *)
(***************************************************************************)
Init ==
    /\ \E typed \in BOOLEAN :
       \E tf \in {Fragments.none, Fragments.one, Fragments.noattr} :
       \E tr \in TemplateReadoutLists(typed) :
       \E tid \in {None, Some("T1"), Some("T9")} :
       \E pf \in {Fragments.none, Fragments.one, Fragments.two,
                  Fragments.noattr, Fragments.blank} :
       \E pr \in ReadoutLists(typed) :
       \E pa \in AssayLists :
       \E more \in BOOLEAN :
          /\ templates = [T1 |-> Template("T1", tf, tr)]
          /\ protocols =
               <<Protocol("p1", tid, pf, pr, pa)>>
               \o (IF more
                   THEN <<Protocol("p2", Some("T1"), Fragments.two, <<>>, pa)>>
                   ELSE <<>>)
    /\ attributes = Attributes
    /\ target_term = TargetTerm
    /\ args0 = [templates |-> templates, protocols |-> protocols]
    /\ pc = "idle"
    /\ pidx = 0 /\ ridx = 0 /\ aidx = 0
    /\ rcds = <<>>
    /\ templates_resolved = EmptyMemo
    /\ templates_readouts = EmptyMemo
    /\ spec = EmptySpec
    /\ readouts = <<>>
    /\ sp = EmptySpec
    /\ cand = <<>>
    /\ outcomes = <<>>
    /\ RunAtRest
    /\ ConcAtRest

\* The call ends: its frame is gone, its outcome is recorded.
Finish(outcome) ==
    /\ outcomes' = Append(outcomes, outcome)
    /\ pc' = "idle"
    /\ pidx' = 0 /\ ridx' = 0 /\ aidx' = 0
    /\ rcds' = <<>>
    /\ templates_resolved' = EmptyMemo
    /\ templates_readouts' = EmptyMemo
    /\ spec' = EmptySpec
    /\ readouts' = <<>>
    /\ sp' = EmptySpec

Raise(e) == Finish([kind |-> "raised", exc |-> e, rcds |-> <<>>])

\* generate_assays is called on the argument objects (lines 143-145).
Call ==
    /\ pc = "idle"
    /\ Len(outcomes) < MaxCalls
    /\ pc' = "protocol"
    /\ pidx' = 1
    /\ rcds' = <<>>
    /\ templates_resolved' = EmptyMemo
    /\ templates_readouts' = EmptyMemo
    /\ cand' = <<>>
    /\ UNCHANGED <<templates, protocols, attributes, target_term, args0, ridx,
                   aidx, spec, readouts, sp, outcomes>>
    /\ UNCHANGED <<runvars, concvars>>

\* One iteration of the protocol loop up to the readout loop (lines 146-181).
ProtocolStep ==
    /\ pc = "protocol"
    /\ pidx <= Len(protocols)
    /\ LET t == ApplyTemplate(protocols[pidx], templates, templates_resolved,
                              templates_readouts, attributes)
           p == ApplyProtocol(protocols[pidx], t.spec, t.readouts, attributes)
       IN  /\ templates' = t.templates
           /\ IF t.exc # NoExc
              THEN /\ Raise(t.exc)
                   /\ UNCHANGED protocols
              ELSE /\ protocols' = [protocols EXCEPT ![pidx] = p.protocol]
                   /\ IF p.exc # NoExc
                      THEN Raise(p.exc)
                      ELSE /\ templates_resolved' =
                                MemoAfterProtocol(t.resolved, protocols[pidx], p.spec)
                           /\ templates_readouts' = t.treadouts
                           /\ spec' = p.spec
                           /\ readouts' = p.readouts
                           /\ IF Len(p.readouts) = 0
                              THEN pidx' = pidx + 1 /\ pc' = "protocol" /\ ridx' = 0
                              ELSE pidx' = pidx /\ pc' = "readout" /\ ridx' = 1
                           /\ UNCHANGED <<aidx, rcds, sp, outcomes>>
    /\ UNCHANGED <<attributes, target_term, args0, cand>>
    /\ UNCHANGED <<runvars, concvars>>

\* The loop position after readout ridx is done.
NextReadout ==
    IF ridx < Len(readouts)
    THEN pc' = "readout" /\ ridx' = ridx + 1 /\ pidx' = pidx
    ELSE pc' = "protocol" /\ ridx' = 0 /\ pidx' = pidx + 1

\* One iteration of the readout loop up to the assay loop (lines 184-202).
ReadoutStep ==
    /\ pc = "readout"
    /\ LET r == ApplyReadout(spec, readouts[ridx], target_term, attributes)
       IN  IF r.exc # NoExc
           THEN Raise(r.exc)
           ELSE /\ sp' = r.sp
                /\ IF Len(protocols[pidx].assays) = 0
                   THEN NextReadout /\ aidx' = 0
                   ELSE pc' = "assay" /\ aidx' = 1 /\ UNCHANGED <<pidx, ridx>>
                /\ UNCHANGED <<rcds, templates_resolved, templates_readouts,
                               spec, readouts, outcomes>>
    /\ UNCHANGED <<templates, protocols, attributes, target_term, args0, cand>>
    /\ UNCHANGED <<runvars, concvars>>

\* One iteration of the assay loop (lines 205-255).
AssayStep ==
    /\ pc = "assay"
    /\ LET a == ApplyAssay(sp, protocols[pidx].assays[aidx], ridx, attributes)
       IN  /\ cand' = cand \o a.tried
           /\ IF a.exc # NoExc
              THEN Raise(a.exc)
              ELSE /\ rcds' = rcds \o a.emitted
                   /\ IF aidx < Len(protocols[pidx].assays)
                      THEN aidx' = aidx + 1 /\ UNCHANGED <<pc, pidx, ridx>>
                      ELSE NextReadout /\ aidx' = 0
                   /\ UNCHANGED <<templates_resolved, templates_readouts, spec,
                                  readouts, sp, outcomes>>
    /\ UNCHANGED <<templates, protocols, attributes, target_term, args0>>
    /\ UNCHANGED <<runvars, concvars>>

\* The protocol loop is exhausted: return rcds (line 257).
Return ==
    /\ pc = "protocol"
    /\ pidx > Len(protocols)
    /\ Finish([kind |-> "returned", exc |-> NoExc, rcds |-> rcds])
    /\ UNCHANGED <<templates, protocols, attributes, target_term, args0, cand>>
    /\ UNCHANGED <<runvars, concvars>>

Next == Call \/ ProtocolStep \/ ReadoutStep \/ AssayStep \/ Return

Spec == Init /\ [][Next]_vars


(***************************************************************************)
(* What the specification says of the arguments as they were given: the    *)
(* levels of a record and what each level contributes.                     *)
(***************************************************************************)
Flatten(qs) ==
    LET RECURSIVE Cat(_)
        Cat(i) == IF i > Len(qs) THEN <<>> ELSE qs[i] \o Cat(i + 1)
    IN  Cat(1)

\* The term ids a level contributes: its own, then those of its attributes.
LevelTermIds(f) ==
    {f.terms[i].id : i \in 1..Len(f.terms)}
    \cup UNION {{Attributes[a].terms[i].id : i \in 1..Len(Attributes[a].terms)} :
                a \in Range(f.attributes) \cap DOMAIN Attributes}

\* The parameters a level contributes: its own, then those of its attributes.
LevelParameters(f) ==
    f.parameters
    \o Flatten([i \in 1..Len(f.attributes) |-> Attributes[f.attributes[i]].parameters])

NoTemplate == [targets |-> <<>>, attributes |-> <<>>, terms |-> <<>>,
               parameters |-> <<>>, readouts |-> <<>>]

TemplateOf(p) ==
    IF IsNone(p.templateId) \/ p.templateId[1] \notin DOMAIN args0.templates
    THEN NoTemplate
    ELSE args0.templates[p.templateId[1]]

\* The readouts a protocol resolves to.
ResolvedReadouts(p) ==
    IF Len(p.readouts) > 0 THEN p.readouts ELSE TemplateOf(p).readouts

\* The targets of the most specific level that declares any.
ResolvedTargets(p, ro) ==
    IF Len(ro.targets) > 0 THEN ro.targets
    ELSE IF Len(p.targets) > 0 THEN p.targets
    ELSE TemplateOf(p).targets

TermIdsOfTargets(tgs) ==
    UNION {{t.id : t \in Range(TargetTerm[tg.accessionId].Function)
                       \cup Range(TargetTerm[tg.accessionId].Process)
                       \cup Range(TargetTerm[tg.accessionId].Component)
                       \cup Range(TargetTerm[tg.accessionId].ChEBI)} :
           tg \in tgs}

TargetTermIds(targets) == TermIdsOfTargets(Range(targets))

\* Datasource d has a non-null slot for readout position r.
HasSlot(d, r) ==
    IF d.sourceType = "Screener"
    THEN r <= Len(d.layerIndices) /\ ~IsNone(d.layerIndices[r])
    ELSE r <= Len(d.valueColumns) /\ ~IsNone(d.valueColumns[r])

SlotCount(a, r) == Cardinality({i \in 1..Len(a.datasources) : HasSlot(a.datasources[i], r)})

\* The (protocol, readout, assay) positions the specification has a row for.
Rows ==
    {t \in UNION {{i} \X (1..Len(ResolvedReadouts(args0.protocols[i])))
                      \X (1..Len(args0.protocols[i].assays)) :
                  i \in 1..Len(args0.protocols)} :
        SlotCount(args0.protocols[t[1]].assays[t[3]], t[2]) > 0}

\* The arguments are valid: every reference resolves, every readout-indexed
\* array has one slot per resolved readout, every term id is a non-empty str.
LevelValid(f) ==
    /\ Range(f.attributes) \subseteq DOMAIN Attributes
    /\ \A t \in Range(f.terms) : Len(t.id) > 0

TargetsKnown(f) == \A tg \in Range(f.targets) : tg.accessionId \in DOMAIN TargetTerm

DatasourceValid(d, n) ==
    /\ d.sourceType = "Screener" => Len(d.layerIndices) = n
    /\ d.sourceType = "CSV" => Len(d.valueColumns) = n
    /\ \A k \in 1..Len(d.subExperiments) :
          /\ Len(d.subExperiments[k].subExpValues) = n
          /\ \A r \in 1..n : ~IsNone(d.subExperiments[k].subExpValues[r])

ProtocolValid(p) ==
    /\ IsNone(p.templateId) \/ p.templateId[1] \in DOMAIN args0.templates
    /\ LevelValid(p) /\ TargetsKnown(p)
    /\ LevelValid(TemplateOf(p)) /\ TargetsKnown(TemplateOf(p))
    /\ \A ro \in Range(ResolvedReadouts(p)) : LevelValid(ro) /\ TargetsKnown(ro)
    /\ \A a \in Range(p.assays) :
          /\ LevelValid(a)
          /\ \A d \in Range(a.datasources) :
                DatasourceValid(d, Len(ResolvedReadouts(p)))

ValidArguments == \A p \in Range(args0.protocols) : ProtocolValid(p)

\* The levels of a record, found by its three ids.
PosOfProtocol(rec) ==
    CHOOSE i \in 1..Len(args0.protocols) :
        args0.protocols[i].protocolId = rec.protocolId
ProtocolOfRecord(rec) == args0.protocols[PosOfProtocol(rec)]
PosOfReadout(rec) ==
    CHOOSE r \in 1..Len(ResolvedReadouts(ProtocolOfRecord(rec))) :
        ResolvedReadouts(ProtocolOfRecord(rec))[r].readoutId = rec.readoutId
ReadoutOfRecord(rec) == ResolvedReadouts(ProtocolOfRecord(rec))[PosOfReadout(rec)]
PosOfAssay(rec) ==
    CHOOSE j \in 1..Len(ProtocolOfRecord(rec).assays) :
        ProtocolOfRecord(rec).assays[j].assayId = rec.assayId
AssayOfRecord(rec) == ProtocolOfRecord(rec).assays[PosOfAssay(rec)]
PosOfRecord(rec) == <<PosOfProtocol(rec), PosOfReadout(rec), PosOfAssay(rec)>>

\* All parameters of a record's levels, in ascending specificity.
ChainParameters(rec) ==
    LevelParameters(TemplateOf(ProtocolOfRecord(rec)))
    \o LevelParameters(ProtocolOfRecord(rec))
    \o LevelParameters(ReadoutOfRecord(rec))
    \o LevelParameters(AssayOfRecord(rec))

ParamKey(q) == <<q[1], q[2]>>
LastIndexOf(ps, k) ==
    CHOOSE i \in 1..Len(ps) :
        ParamKey(ps[i]) = k /\ \A j \in (i + 1)..Len(ps) : ParamKey(ps[j]) # k

\* One entry per key, the most specific declaration of it, in ascending
\* specificity order.
ParametersMostSpecific(rec) ==
    LET chain == ChainParameters(rec)
        ps == rec.parameters
    IN  /\ \A i, j \in 1..Len(ps) : i # j => ParamKey(ps[i]) # ParamKey(ps[j])
        /\ {ParamKey(q) : q \in Range(ps)} = {ParamKey(q) : q \in Range(chain)}
        /\ \A i \in 1..Len(ps) : ps[i] = chain[LastIndexOf(chain, ParamKey(ps[i]))]
        /\ \A i, j \in 1..Len(ps) :
              i < j => LastIndexOf(chain, ParamKey(ps[i]))
                          < LastIndexOf(chain, ParamKey(ps[j]))

\* The term ids of a record's levels and of its resolved targets.
ChainTermIds(rec) ==
    LevelTermIds(TemplateOf(ProtocolOfRecord(rec)))
    \cup LevelTermIds(ProtocolOfRecord(rec))
    \cup LevelTermIds(ReadoutOfRecord(rec))
    \cup LevelTermIds(AssayOfRecord(rec))
    \cup TargetTermIds(ResolvedTargets(ProtocolOfRecord(rec), ReadoutOfRecord(rec)))

TermsSortedUnion(rec) ==
    /\ {rec.terms[i].id : i \in 1..Len(rec.terms)} = ChainTermIds(rec)
    /\ \A i, j \in 1..Len(rec.terms) :
          i < j => StrLess(rec.terms[i].id, rec.terms[j].id)

\* The targets are those of the most specific level; a replaced target list
\* adds no term.
TargetsOverridden(rec) ==
    LET p == ProtocolOfRecord(rec)
        ro == ReadoutOfRecord(rec)
        replaced == (Range(p.targets) \cup Range(TemplateOf(p).targets))
                    \ Range(ResolvedTargets(p, ro))
        declared == LevelTermIds(TemplateOf(p)) \cup LevelTermIds(p)
                    \cup LevelTermIds(ro) \cup LevelTermIds(AssayOfRecord(rec))
    IN  /\ rec.targets = ResolvedTargets(p, ro)
        /\ TargetTermIds(ResolvedTargets(p, ro))
              \subseteq {rec.terms[i].id : i \in 1..Len(rec.terms)}
        /\ \A id \in TermIdsOfTargets(replaced) :
              id \in {rec.terms[i].id : i \in 1..Len(rec.terms)}
                 => id \in declared \cup TargetTermIds(ResolvedTargets(p, ro))

\* Each datasource entry carries the single index or column of the record's
\* readout, and only datasources with a slot for it contribute.
DatasourcesSliced(rec) ==
    LET a == AssayOfRecord(rec)
        r == PosOfReadout(rec)
        with == {i \in 1..Len(a.datasources) : HasSlot(a.datasources[i], r)}
    IN  /\ Len(rec.datasources) >= 1
        /\ \A e \in Range(rec.datasources) :
              \E i \in with :
                 /\ e.sourceType = a.datasources[i].sourceType
                 /\ e.sourceType = "Screener" =>
                       /\ e.sessionId = a.datasources[i].sessionId
                       /\ e.layerIndex = a.datasources[i].layerIndices[r]
                 /\ e.sourceType = "CSV" =>
                       /\ e.sourcePath = a.datasources[i].sourcePath
                       /\ e.valueColumn = a.datasources[i].valueColumns[r]

PosLess(a, b) ==
    \/ a[1] < b[1]
    \/ a[1] = b[1] /\ a[2] < b[2]
    \/ a[1] = b[1] /\ a[2] = b[2] /\ a[3] <= b[3]

(***************************************************************************)
(* Properties                                                              *)
(***************************************************************************)
Returned(k) == Len(outcomes) >= k /\ outcomes[k].kind = "returned"
RaisedType(k, type) ==
    Len(outcomes) >= k /\ outcomes[k].kind = "raised" /\ outcomes[k].exc.type = type

\* C1: two successive calls of generate_assays on the same protocols,
\* templates, attributes and target_term return equal record lists in equal
\* order: when the first call returned a list, so does the second, and the
\* two lists are equal.
C1_SecondCallReturnsTheSame ==
    (Returned(1) /\ Len(outcomes) >= 2) =>
        (Returned(2) /\ outcomes[2].rcds = outcomes[1].rcds)

\* C2: generate_assays treats its inputs as read-only: at every point of a
\* call and after it, successful or failing, the templates and the protocols
\* hold what they held before the first call.
C2_InputsReadOnly ==
    /\ templates = args0.templates
    /\ protocols = args0.protocols
    /\ attributes = Attributes

RecordsOf(k) == Range(outcomes[k].rcds)

RowProtocol(t) == args0.protocols[t[1]]
RowReadout(t) == ResolvedReadouts(RowProtocol(t))[t[2]]
RowAssay(t) == RowProtocol(t).assays[t[3]]

\* The first call has ended on valid arguments with a row whose template
\* and assay declare the same parameter key with different values.
C3_Case ==
    /\ Len(outcomes) >= 1 /\ ValidArguments
    /\ \E t \in Rows :
          \E q \in Range(TemplateOf(RowProtocol(t)).parameters) :
          \E u \in Range(RowAssay(t).parameters) :
              ParamKey(q) = ParamKey(u) /\ q # u

\* ... with a row whose template contributes a term and whose assay adds
\* another.
C4_Case ==
    /\ Len(outcomes) >= 1 /\ ValidArguments
    /\ \E t \in Rows :
          /\ LevelTermIds(TemplateOf(RowProtocol(t))) # {}
          /\ LevelTermIds(RowAssay(t)) \ LevelTermIds(TemplateOf(RowProtocol(t))) # {}

\* ... with a row whose readout or protocol targets replace the non-empty
\* targets of a lower level.
C5_Case ==
    /\ Len(outcomes) >= 1 /\ ValidArguments
    /\ \E t \in Rows :
          LET p == RowProtocol(t)
          IN  \/ Len(RowReadout(t).targets) > 0
                 /\ Len(p.targets) + Len(TemplateOf(p).targets) > 0
              \/ Len(p.targets) > 0 /\ Len(TemplateOf(p).targets) > 0

\* ... with a datasource that has a slot for some readouts of its protocol
\* and none for others.
C6_Case ==
    /\ Len(outcomes) >= 1 /\ ValidArguments
    /\ \E p \in Range(args0.protocols) :
       \E a \in Range(p.assays) :
       \E d \in Range(a.datasources) :
       \E r1, r2 \in 1..Len(ResolvedReadouts(p)) :
          HasSlot(d, r1) /\ ~HasSlot(d, r2)

\* ... with rows of two readouts.
C9_Case ==
    /\ Len(outcomes) >= 1 /\ ValidArguments
    /\ \E t, u \in Rows : t[2] # u[2]

\* C3: in every record returned by generate_assays the parameters hold one
\* entry per (category, name) key, the one of the most specific level that
\* declares it, in ascending specificity order; a call on valid arguments
\* with a row to produce returns such records.
C3_ParametersMostSpecificWins ==
    C3_Case =>
        /\ Returned(1)
        /\ RecordsOf(1) # {}
        /\ \A rec \in RecordsOf(1) : ParametersMostSpecific(rec)

\* C4: in every record returned by generate_assays the terms are the
\* duplicate-free ascending list of exactly the term ids of its template,
\* protocol, readout and assay (own and attribute-derived) and of its
\* resolved targets; a call on valid arguments with a row to produce returns
\* such records.
C4_TermsSortedUnion ==
    C4_Case =>
        /\ Returned(1)
        /\ RecordsOf(1) # {}
        /\ \A rec \in RecordsOf(1) : TermsSortedUnion(rec)

\* C5: the targets of every returned record are the most specific non-empty
\* targets list among readout, protocol and template, and only the resolved
\* targets add ontology terms; a call on valid arguments with a row to
\* produce returns such records.
C5_TargetsOverride ==
    C5_Case =>
        /\ Returned(1)
        /\ RecordsOf(1) # {}
        /\ \A rec \in RecordsOf(1) : TargetsOverridden(rec)

\* C6: a datasource contributes to readout i only through a non-null slot i
\* and with that single index or column; a pair whose datasources contribute
\* nothing gives no record and no error: on valid arguments the call returns
\* and its records are those of exactly the (protocol, readout, assay)
\* positions with a non-null slot.
C6_SlicingAndSilentSkip ==
    C6_Case =>
        /\ Returned(1)
        /\ {PosOfRecord(rec) : rec \in RecordsOf(1)} = Rows
        /\ \A rec \in RecordsOf(1) : DatasourcesSliced(rec)

\* C7: every AssaySpec record generate_assays builds for its result carries
\* exactly one resolved datasource entry, so that k non-null datasources of
\* an assay give k rows for the (assay, readout) pair.
C7_OneDatasourcePerRecord ==
    /\ \A i \in 1..Len(cand) : Len(cand[i].datasources) = 1
    /\ \A k \in 1..Len(outcomes) :
          \A rec \in RecordsOf(k) : Len(rec.datasources) = 1

\* C8: a protocol with assays that resolves to zero readouts ends the call
\* with the configuration error and no rows; a protocol with zero readouts
\* and zero assays does not raise it; the error is raised for no other
\* protocol.
C8_FailFast ==
    [][ (pc = "protocol" /\ pidx <= Len(protocols)) =>
          LET p == protocols[pidx]
              zero == /\ Len(p.readouts) = 0
                      /\ \/ IsNone(p.templateId)
                         \/ /\ p.templateId[1] \in DOMAIN templates
                            /\ Len(templates[p.templateId[1]].readouts) = 0
              ended == Len(outcomes') = Len(outcomes) + 1
              last == outcomes'[Len(outcomes')]
              failfast == /\ ended
                          /\ last.kind = "raised"
                          /\ last.exc.type = "ValueError"
              other == ended /\ last.kind = "raised" /\ last.exc.type # "ValueError"
          IN  /\ failfast => (zero /\ Len(p.assays) > 0 /\ Len(last.rcds) = 0)
              /\ (zero /\ Len(p.assays) > 0) => (failfast \/ other)
              /\ (zero /\ Len(p.assays) = 0) => ~failfast
      ]_vars

C8_Witness == RaisedType(1, "ValueError") /\ Len(args0.protocols) = 1

\* C9: the records come in protocol order, then readout order, then assay
\* order: on valid arguments with a row to produce the call returns the
\* records of the rows, none of a later position before one of an earlier.
C9_OutputOrder ==
    C9_Case =>
        /\ Returned(1)
        /\ {PosOfRecord(rec) : rec \in RecordsOf(1)} = Rows
        /\ \A i, j \in 1..Len(outcomes[1].rcds) :
              i < j => PosLess(PosOfRecord(outcomes[1].rcds[i]),
                               PosOfRecord(outcomes[1].rcds[j]))

\* The terms and parameters of a fragment with declared terms once expanded.
ExpandedTerms(f) ==
    [i \in 1..Len(f.terms) |-> Str(f.terms[i].id)]
    \o Flatten([k \in 1..Len(f.attributes) |->
                  [i \in 1..Len(attributes[f.attributes[k]].terms) |->
                      Str(attributes[f.attributes[k]].terms[i].id)]])

ExpandedParameters(f) ==
    f.parameters
    \o Flatten([k \in 1..Len(f.attributes) |->
                  attributes[f.attributes[k]].parameters])

Declared(f) == \A t \in Range(f.terms) : t.tup
Resolvable(f) ==
    /\ Range(f.attributes) \subseteq DOMAIN attributes
    /\ \A t \in Range(f.terms) : CanItem0(t)

InFirstCall == Len(outcomes) = 0 \/ (Len(outcomes) = 1 /\ pc = "idle")

CandidatesFollowMergeRules ==
    (ValidArguments /\ InFirstCall) =>
        \A c \in Range(cand) :
            /\ ParametersMostSpecific(c)
            /\ TermsSortedUnion(c)
            /\ TargetsOverridden(c)
            /\ DatasourcesSliced(c)
            /\ Len(c.datasources) = SlotCount(AssayOfRecord(c), PosOfReadout(c))

CandidateReached ==
    /\ ValidArguments /\ InFirstCall /\ Len(cand) > 0
    /\ Len(cand[1].parameters) > 1 /\ Len(cand[1].terms) > 2

\* No call ever returns a record.
NoRecordReturned == \A k \in 1..Len(outcomes) : Len(outcomes[k].rcds) = 0

(***************************************************************************)
(* C11.  Readout replacement: the readouts iterated for a protocol are     *)
(* exactly the protocol's own readouts when it declares any, and exactly   *)
(* its template's readouts otherwise; they are iterated one by one from    *)
(* the first to the last, and a dict built for a record carries the id of  *)
(* one of them, so no template readout contributes once the protocol       *)
(* declares readouts.                                                      *)
(***************************************************************************)
ReadoutIds(rds) == {rds[i].readoutId : i \in 1..Len(rds)}

C11_ReadoutReplacement ==
    [][ /\ (pc' \in {"readout", "assay"}) =>
              /\ readouts' = ResolvedReadouts(args0.protocols[pidx'])
              /\ ridx' \in 1..Len(readouts')
        /\ (pc = "protocol" /\ pc' = "readout") => ridx' = 1
        /\ (pc \in {"readout", "assay"} /\ pc' \in {"readout", "assay"}) =>
              ridx' \in {ridx, ridx + 1}
        /\ (pc = "assay" /\ pc' = "assay") => ridx' = ridx
        /\ (pc = "protocol" /\ pc' = "protocol" /\ pidx' = pidx + 1) =>
              ResolvedReadouts(args0.protocols[pidx]) = <<>>
        /\ (pc \in {"readout", "assay"} /\ pc' = "protocol") =>
              ridx = Len(ResolvedReadouts(args0.protocols[pidx]))
        /\ (pc' = "assay") =>
              sp'.readoutId = ResolvedReadouts(args0.protocols[pidx'])[ridx'].readoutId
        /\ \A i \in 1..Len(cand') :
              cand'[i].readoutId
                  \in ReadoutIds(ResolvedReadouts(ProtocolOfRecord(cand'[i])))
      ]_vars

\* The last readout of a protocol that declares readouts of its own and
\* references a template with readouts is at its assays.
C11_Witness ==
    /\ pc = "assay"
    /\ ~IsNone(args0.protocols[pidx].templateId)
    /\ Len(args0.protocols[pidx].readouts) = 3
    /\ Len(TemplateOf(args0.protocols[pidx]).readouts) = 1
    /\ ridx = 3
    /\ sp.readoutId = "r3"

(***************************************************************************)
(* C12.  An attribute id that is absent from the registry makes the call   *)
(* fail with an error that names the missing id and the level that         *)
(* references it, and no record is returned.  The case: the first protocol *)
(* has no template and references an absent attribute id itself, so that   *)
(* nothing else of the configuration is looked at before.                  *)
(***************************************************************************)
\* What the text of an exception names: its one argument.
NamedBy(e) == {e.arg}

MissingAttributes(f) == Range(f.attributes) \ DOMAIN Attributes

C12_Case ==
    /\ Len(outcomes) >= 1
    /\ IsNone(args0.protocols[1].templateId)
    /\ \A t \in Range(args0.protocols[1].terms) : Len(t.id) > 0
    /\ MissingAttributes(args0.protocols[1]) # {}

C12_UnresolvedAttributeNamed ==
    C12_Case =>
        /\ outcomes[1].kind = "raised"
        /\ outcomes[1].rcds = <<>>
        /\ \E a \in MissingAttributes(args0.protocols[1]) :
              a \in NamedBy(outcomes[1].exc)
        /\ args0.protocols[1].protocolId \in NamedBy(outcomes[1].exc)

\* What the call does in that case: a KeyError whose argument is the id.
UnresolvedAttributeIsKeyError ==
    C12_Case =>
        /\ outcomes[1].kind = "raised"
        /\ outcomes[1].rcds = <<>>
        /\ outcomes[1].exc.type = "KeyError"
        /\ outcomes[1].exc.arg \in MissingAttributes(args0.protocols[1])

(***************************************************************************)
(* C13.  A datasource whose layerIndices, valueColumns or sub-experiment   *)
(* values list has a length other than the number of resolved readouts of  *)
(* its protocol is rejected: the call raises, it does not index past the   *)
(* end of the list (IndexError), and it builds no dict for a record from   *)
(* the protocol (surplus entries are not ignored).  The case: the first    *)
(* protocol has such a datasource and is valid in everything else.         *)
(***************************************************************************)
LengthsMatch(d, n) ==
    /\ d.sourceType = "Screener" => Len(d.layerIndices) = n
    /\ d.sourceType = "CSV" => Len(d.valueColumns) = n
    /\ \A k \in 1..Len(d.subExperiments) : Len(d.subExperiments[k].subExpValues) = n

LengthMismatch(p) ==
    /\ Len(ResolvedReadouts(p)) > 0
    /\ \E a \in Range(p.assays) : \E d \in Range(a.datasources) :
          ~LengthsMatch(d, Len(ResolvedReadouts(p)))

C13_Case ==
    /\ Len(outcomes) = 1
    /\ pc = "idle"
    /\ LengthMismatch(args0.protocols[1])
    /\ LET p == args0.protocols[1] IN
          /\ IsNone(p.templateId) \/ p.templateId[1] \in DOMAIN args0.templates
          /\ LevelValid(p) /\ TargetsKnown(p)
          /\ LevelValid(TemplateOf(p)) /\ TargetsKnown(TemplateOf(p))
          /\ \A ro \in Range(ResolvedReadouts(p)) : LevelValid(ro) /\ TargetsKnown(ro)
          /\ \A a \in Range(p.assays) : LevelValid(a)

C13_LengthChecked ==
    C13_Case =>
        /\ outcomes[1].kind = "raised"
        /\ outcomes[1].exc.type # "IndexError"
        /\ cand = <<>>

\* The two ways a length mismatch is handled: a list shorter than the
\* readouts is indexed past its end, a longer one has its surplus ignored.
C13_NoIndexPastEnd == C13_Case => outcomes[1].exc.type # "IndexError"
C13_NoSurplusIgnored == C13_Case => cand = <<>>

(***************************************************************************)
(* C18.  Normal completion on valid input: when every attribute id and     *)
(* every target accession resolves, every readout-indexed list has one     *)
(* slot per readout, the readouts are Readout dicts as load_protocols and  *)
(* load_templates yield them, and some (protocol, readout, assay) has a    *)
(* non-null datasource slot, the call returns, and the returned list has   *)
(* a record for every such triple with the readout's id and readout mode.  *)
(***************************************************************************)
\* The readout dicts have the fields of the Readout model and no other.
ReadoutsAsLoaded ==
    /\ \A p \in Range(args0.protocols) : \A ro \in Range(p.readouts) :
          "readoutType" \notin DOMAIN ro
    /\ \A tid \in DOMAIN args0.templates :
          \A ro \in Range(args0.templates[tid].readouts) :
              "readoutType" \notin DOMAIN ro

C18_Case ==
    /\ Len(outcomes) >= 1
    /\ ValidArguments
    /\ ReadoutsAsLoaded
    /\ Rows # {}

C18_NormalCompletion ==
    C18_Case =>
        /\ Returned(1)
        /\ \A t \in Rows :
              \E rec \in RecordsOf(1) :
                 /\ rec.protocolId = RowProtocol(t).protocolId
                 /\ rec.readoutId = RowReadout(t).readoutId
                 /\ rec.assayId = RowAssay(t).assayId
                 /\ rec.readoutMode = RowReadout(t).readoutMode

\* What the call does instead: whenever a readout is reached, it raises.
RaisesAtFirstReadout ==
    (Len(outcomes) >= 1 /\ ValidArguments /\ ReadoutsAsLoaded
       /\ \E p \in Range(args0.protocols) : Len(ResolvedReadouts(p)) > 0) =>
        /\ outcomes[1].kind = "raised"
        /\ outcomes[1].exc \in {KeyError("readoutType"),
                                ValueError("Assays defined but no readouts found.")}

(***************************************************************************)
(* C19.  Sibling isolation within one call: a dict built for a record, and *)
(* so a record, holds only targets, terms and parameters contributed by    *)
(* its own template, protocol, readout and assay; nothing that only        *)
(* another protocol of the same template, another readout or another       *)
(* assay declares appears in it.                                           *)
(***************************************************************************)
\* The targets declared along a record's chain of levels.
ChainTargets(rec) ==
    Range(TemplateOf(ProtocolOfRecord(rec)).targets)
    \cup Range(ProtocolOfRecord(rec).targets)
    \cup Range(ReadoutOfRecord(rec).targets)

OnlyOwnChain(rec) ==
    /\ {rec.terms[i].id : i \in 1..Len(rec.terms)} \subseteq ChainTermIds(rec)
    /\ Range(rec.parameters) \subseteq Range(ChainParameters(rec))
    /\ Range(rec.targets) \subseteq ChainTargets(rec)

C19_SiblingIsolation ==
    /\ InFirstCall => \A c \in Range(cand) : OnlyOwnChain(c)
    /\ Len(outcomes) >= 1 => \A rec \in RecordsOf(1) : OnlyOwnChain(rec)

\* A dict is built for the second protocol of a template after the first
\* protocol, a sibling readout and nothing else declared a term, a
\* parameter and a target that its own chain does not have.
C19_Witness ==
    /\ InFirstCall
    /\ Len(cand) = 1
    /\ cand[1].protocolId = "p2"
    /\ LevelTermIds(args0.protocols[1]) \ ChainTermIds(cand[1]) # {}
    /\ Range(args0.protocols[1].parameters)
          \ Range(ChainParameters(cand[1])) # {}
    /\ Range(args0.protocols[1].targets) \ ChainTargets(cand[1]) # {}
    /\ PosOfReadout(cand[1]) = 3
    /\ LevelTermIds(ResolvedReadouts(args0.protocols[2])[2])
          \ ChainTermIds(cand[1]) # {}

\* A dict is built for the second assay of a protocol whose first assay,
\* skipped for this readout, declares a term its chain does not have.
C19_WitnessAssay ==
    /\ InFirstCall
    /\ Len(cand) = 1
    /\ cand[1].assayId = "x7"
    /\ LevelTermIds(ProtocolOfRecord(cand[1]).assays[1]) \ ChainTermIds(cand[1]) # {}

(***************************************************************************)
(* convert_conc_units (util.py:3-33)                                       *)
(*                                                                         *)
(* A number is (n / d) * 10^e with integers n, d > 0 and e, so that the    *)
(* factors 1e-3 .. 1e-12 and the reciprocal of a dilution are exact.       *)
(***************************************************************************)
Num(n, d, e) == [n |-> n, d |-> d, e |-> e]
Negative(x) == x.n < 0
\* x > c and x < c for an argument x (e = 0) and an integer c.
Above(x, c) == x.n > c * x.d
Below(x, c) == x.n < c * x.d
TimesPowerOfTen(x, k) == [x EXCEPT !.e = @ + k]
Reciprocal(x) == Num(x.d, x.n, -x.e)

\* mol_factor (lines 8-10) and gl_factor (lines 11-15), as exponents of ten.
mol_factor == [M |-> 0, mM |-> -3, uM |-> -6, nM |-> -9, pM |-> -12]
gl_factor ==
    ("g/L" :> 0) @@ ("mg/L" :> -3) @@ ("ug/L" :> -6) @@ ("ng/L" :> -9)
    @@ ("pg/L" :> -12) @@ ("mg/mL" :> 0) @@ ("ug/mL" :> -3) @@ ("ng/mL" :> -6)
    @@ ("pg/mL" :> -9) @@ ("ug/uL" :> 0) @@ ("ng/uL" :> -3) @@ ("pg/uL" :> -6)

ReturnPair(x, unit) ==
    [kind |-> "returned", exc |-> NoExc, value |-> x, unit |-> unit]
RaiseConc(e) == [kind |-> "raised", exc |-> e, value |-> Num(0, 1, 0), unit |-> ""]

\* A dict object can be subscripted and tested with in; it cannot be called.
DictIsCallable == FALSE

\* Lines 6-33.  Line 18 evaluates gl_factor() before its membership test.
convert_conc_units(value, unit) ==
    IF Negative(value)
    THEN RaiseConc(ValueError("concentration should be a positive value"))
    ELSE IF unit \in DOMAIN mol_factor
    THEN ReturnPair(TimesPowerOfTen(value, mol_factor[unit]), "M")
    ELSE IF ~DictIsCallable
    THEN RaiseConc(TypeError("'dict' object is not callable"))
    ELSE IF unit \in DOMAIN gl_factor
    THEN ReturnPair(TimesPowerOfTen(value, gl_factor[unit]), "g/L")
    ELSE IF unit = "v/v%"
    THEN IF Above(value, 100) \/ Below(value, 0)
         THEN RaiseConc(ValueError("v/v% should be in the range of 0-100"))
         ELSE ReturnPair(TimesPowerOfTen(value, -2), "ratio")
    ELSE IF unit = "dilution"
    THEN IF Below(value, 1)
         THEN RaiseConc(ValueError("dilution should be larger than 1"))
         ELSE ReturnPair(Reciprocal(value), "ratio")
    ELSE IF unit = "ratio"
    THEN IF Above(value, 1)
         THEN RaiseConc(ValueError("ratio should be smaller than 1"))
         ELSE ReturnPair(value, unit)
    ELSE RaiseConc(ValueError("invalid concentration unit notation"))

\* The arguments the function is called on.
ConcValues ==
    {Num(-1, 1, 0), Num(0, 1, 0), Num(1, 2, 0), Num(1, 1, 0), Num(5, 1, 0),
     Num(100, 1, 0), Num(101, 1, 0), Num(1000, 1, 0)}
ConcUnits ==
    DOMAIN mol_factor \cup DOMAIN gl_factor
    \cup {"v/v%", "dilution", "ratio", "mol", ""}

InitConc ==
    /\ AssaysAtRest
    /\ RunAtRest
    /\ conc_in \in [value : ConcValues, unit : ConcUnits]
    /\ conc_out = NotCalled

CallConvert ==
    /\ conc_out = NotCalled
    /\ conc_out' = convert_conc_units(conc_in.value, conc_in.unit)
    /\ UNCHANGED <<conc_in, assayvars, runvars>>

NextConc == CallConvert

SpecConc == InitConc /\ [][NextConc]_vars

(***************************************************************************)
(* C17.  Unit normalization: for every supported unit and every value in   *)
(* the unit's valid range convert_conc_units returns the value scaled to   *)
(* the base unit (5 uM gives 5e-6 M, dilution 1000 gives ratio 0.001); it  *)
(* raises only for a negative value, a v/v% above 100, a dilution below 1, *)
(* a ratio above 1 or an unknown unit.                                     *)
(***************************************************************************)
SupportedUnits ==
    DOMAIN mol_factor \cup DOMAIN gl_factor \cup {"v/v%", "dilution", "ratio"}

InValidRange(value, unit) ==
    /\ ~Negative(value)
    /\ unit = "v/v%" => ~Above(value, 100)
    /\ unit = "dilution" => ~Below(value, 1)
    /\ unit = "ratio" => ~Above(value, 1)

\* The value in its base unit.
InBaseUnit(value, unit) ==
    IF unit \in DOMAIN mol_factor
    THEN [value |-> TimesPowerOfTen(value, mol_factor[unit]), unit |-> "M"]
    ELSE IF unit \in DOMAIN gl_factor
    THEN [value |-> TimesPowerOfTen(value, gl_factor[unit]), unit |-> "g/L"]
    ELSE IF unit = "v/v%"
    THEN [value |-> TimesPowerOfTen(value, -2), unit |-> "ratio"]
    ELSE IF unit = "dilution"
    THEN [value |-> Reciprocal(value), unit |-> "ratio"]
    ELSE [value |-> value, unit |-> "ratio"]

C17_UnitNormalization ==
    conc_out # NotCalled =>
        IF conc_in.unit \in SupportedUnits /\ InValidRange(conc_in.value, conc_in.unit)
        THEN /\ conc_out.kind = "returned"
             /\ conc_out.value = InBaseUnit(conc_in.value, conc_in.unit).value
             /\ conc_out.unit = InBaseUnit(conc_in.value, conc_in.unit).unit
        ELSE conc_out.kind = "raised"

\* The molar units are converted as stated.
MolarUnitsConverted ==
    (conc_out # NotCalled /\ conc_in.unit \in DOMAIN mol_factor) =>
        IF InValidRange(conc_in.value, conc_in.unit)
        THEN /\ conc_out.kind = "returned"
             /\ conc_out.value = InBaseUnit(conc_in.value, conc_in.unit).value
             /\ conc_out.unit = "M"
        ELSE conc_out.kind = "raised" /\ conc_out.exc.type = "ValueError"

\* Every other unit ends in a TypeError unless the value is negative.
OtherUnitsRaiseTypeError ==
    (conc_out # NotCalled /\ conc_in.unit \notin DOMAIN mol_factor
       /\ ~Negative(conc_in.value)) =>
        conc_out.kind = "raised" /\ conc_out.exc.type = "TypeError"

(***************************************************************************)
(* generate_assays as one call (parser.py:138-257): the three loops of the *)
(* state machine above run to the end, for its caller process_all.         *)
(***************************************************************************)
\* A loop that ended without exception; own \o the records of the rest.
LoopDone == [exc |-> NoExc, rcds |-> <<>>]
LoopRaised(e) == [exc |-> e, rcds |-> <<>>]
Prepend(own, rest) == [exc |-> rest.exc, rcds |-> own \o rest.rcds]

\* Lines 205-255 from assay j on, for readout position r; a is what the
\* body does for assay j.
RECURSIVE AssayLoop(_, _, _, _, _)
AssayBody(rsp, assays, r, gattrs, j, a) ==
    IF a.exc # NoExc THEN LoopRaised(a.exc)
    ELSE Prepend(a.emitted, AssayLoop(rsp, assays, r, gattrs, j + 1))

AssayLoop(rsp, assays, r, gattrs, j) ==
    IF j > Len(assays) THEN LoopDone
    ELSE AssayBody(rsp, assays, r, gattrs, j, ApplyAssay(rsp, assays[j], r, gattrs))

\* Lines 184-255 from readout position r on; ro is what lines 185-202 do
\* for readout r, own what its assay loop does.
RECURSIVE ReadoutLoop(_, _, _, _, _, _)
ReadoutAssays(pspec, rds, assays, tt, gattrs, r, own) ==
    IF own.exc # NoExc THEN LoopRaised(own.exc)
    ELSE Prepend(own.rcds, ReadoutLoop(pspec, rds, assays, tt, gattrs, r + 1))

ReadoutBody(pspec, rds, assays, tt, gattrs, r, ro) ==
    IF ro.exc # NoExc THEN LoopRaised(ro.exc)
    ELSE ReadoutAssays(pspec, rds, assays, tt, gattrs, r,
                       AssayLoop(ro.sp, assays, r, gattrs, 1))

ReadoutLoop(pspec, rds, assays, tt, gattrs, r) ==
    IF r > Len(rds) THEN LoopDone
    ELSE ReadoutBody(pspec, rds, assays, tt, gattrs, r,
                     ApplyReadout(pspec, rds[r], tt, gattrs))

\* Lines 146-255 from protocol i on; t is what lines 150-169 do for
\* protocol i, p what lines 171-181 do, own what its readout loop does.
RECURSIVE ProtocolLoop(_, _, _, _, _, _, _)
ProtocolReadouts(prots, gattrs, tt, i, t, p, own) ==
    IF own.exc # NoExc THEN LoopRaised(own.exc)
    ELSE Prepend(own.rcds,
                 ProtocolLoop(prots, t.templates,
                              MemoAfterProtocol(t.resolved, prots[i], p.spec),
                              t.treadouts, gattrs, tt, i + 1))

ProtocolBody(prots, gattrs, tt, i, t, p) ==
    IF p.exc # NoExc THEN LoopRaised(p.exc)
    ELSE ProtocolReadouts(prots, gattrs, tt, i, t, p,
                          ReadoutLoop(p.spec, p.readouts, p.protocol.assays,
                                      tt, gattrs, 1))

ProtocolTemplate(prots, gattrs, tt, i, t) ==
    IF t.exc # NoExc THEN LoopRaised(t.exc)
    ELSE ProtocolBody(prots, gattrs, tt, i, t,
                      ApplyProtocol(prots[i], t.spec, t.readouts, gattrs))

ProtocolLoop(prots, tmpls, resolved, treadouts, gattrs, tt, i) ==
    IF i > Len(prots) THEN LoopDone
    ELSE ProtocolTemplate(prots, gattrs, tt, i,
                          ApplyTemplate(prots[i], tmpls, resolved, treadouts, gattrs))

\* The outcome of a call whose loops ended as r.
CallOutcome(r) ==
    IF r.exc # NoExc
    THEN [kind |-> "raised", exc |-> r.exc, rcds |-> <<>>]
    ELSE [kind |-> "returned", exc |-> NoExc, rcds |-> r.rcds]

generate_assays(prots, tmpls, gattrs, tt) ==
    CallOutcome(ProtocolLoop(prots, tmpls, EmptyMemo, EmptyMemo, gattrs, tt, 1))

\* The call as a whole ends as the state machine ends.
OneCallAgrees ==
    Len(outcomes) >= 1 =>
        outcomes[1] = generate_assays(args0.protocols, args0.templates,
                                      Attributes, TargetTerm)

(***************************************************************************)
(* Enrichment: uniprot_target_terms and chebi_name (datasource.py) and     *)
(* fetch_target_terms (parser.py:78-101)                                   *)
(*                                                                         *)
(* A term dictionary (term id -> name) is modelled by its set of keys.     *)
(* What an external source answers to one request is the environment's     *)
(* choice:                                                                 *)
(*   UniProt  "ok"       the entry of the accession                        *)
(*            "error"    requests.get raises                               *)
(*            "noentry"  a JSON body without the key comments              *)
(*            "badgo"    a GO cross-reference whose first property is not  *)
(*                       GoTerm                                            *)
(*   EBI-OLS  "ok", "error", or "nolabel" (a JSON body without label)      *)
(***************************************************************************)
RequestError == [type |-> "RequestException", arg |-> "request failed"]

UniProtAnswers == {"ok", "error", "noentry", "badgo"}
ChebiAnswers == {"ok", "error", "nolabel"}

\* The entries of UniProt: the ChEBI ids of the reaction and cofactor
\* cross-references in the order of the comments, and the GO
\* cross-references with the aspect letter of their GoTerm property.
UniProtEntry ==
    [P1 |-> [chebi |-> <<IdA, IdB, IdA>>,
             go |-> <<[id |-> IdC, got |-> "F"], [id |-> IdD, got |-> "P"]>>],
     P2 |-> [chebi |-> <<IdA>>,
             go |-> <<[id |-> IdAB, got |-> "C"]>>]]

EmptyTermIds == [Function |-> <<>>, Process |-> <<>>, Component |-> <<>>,
                 ChEBI |-> <<>>]

\* chebi_name (datasource.py:58-64) for one answer.
chebi_name(answer) ==
    IF answer = "error" THEN RequestError
    ELSE IF answer = "nolabel" THEN KeyError("label")
    ELSE NoExc

\* datasource.py:27-42: the ChEBI ids from position i on.  Every id is
\* appended; its name is looked up when term_name does not have it yet.
\* failAt is the number of the lookup of this call that does not answer
\* "ok" (0: none), answer what it answers instead.
RECURSIVE ChebiLoop(_, _, _, _, _, _)
ChebiLoop(ids, i, term_name, asked, failAt, answer) ==
    IF i > Len(ids)
    THEN [exc |-> NoExc, ChEBI |-> <<>>, term_name |-> term_name, asked |-> asked]
    ELSE IF ids[i] \in term_name
    THEN LET rest == ChebiLoop(ids, i + 1, term_name, asked, failAt, answer)
         IN  [rest EXCEPT !.ChEBI = <<Str(ids[i])>> \o @]
    ELSE LET this == IF Len(asked) + 1 = failAt THEN answer ELSE "ok"
             log == Append(asked, [id |-> ids[i], ok |-> this = "ok"])
         IN  IF chebi_name(this) # NoExc
             THEN [exc |-> chebi_name(this), ChEBI |-> <<>>,
                   term_name |-> term_name, asked |-> log]
             ELSE LET rest == ChebiLoop(ids, i + 1, term_name \cup {ids[i]}, log,
                                        failAt, answer)
                  IN  [rest EXCEPT !.ChEBI = <<Str(ids[i])>> \o @]

\* The aspect of a GO term (datasource.py:51).
gotype == [F |-> "Function", P |-> "Process", C |-> "Component"]

\* datasource.py:44-54: the GO cross-references; badgo is the answer whose
\* first GO cross-reference has another first property.
GoTerms(go, aspect) ==
    LET RECURSIVE Pick(_)
        Pick(i) == IF i > Len(go) THEN <<>>
                   ELSE (IF gotype[go[i].got] = aspect THEN <<Str(go[i].id)>> ELSE <<>>)
                        \o Pick(i + 1)
    IN  Pick(1)

\* uniprot_target_terms (datasource.py:18-55) for one accession.
uniprot_target_terms(accession_id, answer, failAt, chebiAnswer) ==
    LET failed(e, asked) == [exc |-> e, termids |-> EmptyTermIds, term_name |-> {},
                             asked |-> asked]
    IN
    IF answer = "error" THEN failed(RequestError, <<>>)
    ELSE IF answer = "noentry" \/ accession_id \notin DOMAIN UniProtEntry
    THEN failed(KeyError("comments"), <<>>)
    ELSE LET entry == UniProtEntry[accession_id]
             c == ChebiLoop(entry.chebi, 1, {}, <<>>, failAt, chebiAnswer)
         IN  IF c.exc # NoExc THEN failed(c.exc, c.asked)
             ELSE IF answer = "badgo" /\ Len(entry.go) > 0
             THEN failed(ValueError("Unexpected format in uniProtKBCrossReferences"),
                         c.asked)
             ELSE [exc |-> NoExc,
                   termids |-> [Function |-> GoTerms(entry.go, "Function"),
                                Process |-> GoTerms(entry.go, "Process"),
                                Component |-> GoTerms(entry.go, "Component"),
                                ChEBI |-> c.ChEBI],
                   term_name |-> c.term_name
                                 \cup {entry.go[i].id : i \in 1..Len(entry.go)},
                   asked |-> c.asked]

\* The accession ids of spec["targets"] in order (parser.py:79).
Accessions(f) == [i \in 1..Len(f.targets) |-> f.targets[i].accessionId]

\* The order in which fetch_target_terms visits the targets (lines 90-99):
\* every template and its readouts, then every protocol and its readouts.
TemplateOrder == <<"T1", "T2">>
TemplateIds(tmpls) == SelectSeq(TemplateOrder, LAMBDA t : t \in DOMAIN tmpls)

TargetOccurrences(c) ==
    LET ofReadouts(rds) == Flatten([i \in 1..Len(rds) |-> Accessions(rds[i])])
        ofLevel(f) == Accessions(f) \o ofReadouts(f.readouts)
        tids == TemplateIds(c.templates)
    IN  Flatten([i \in 1..Len(tids) |-> ofLevel(c.templates[tids[i]])])
        \o Flatten([i \in 1..Len(c.protocols) |-> ofLevel(c.protocols[i])])

(***************************************************************************)
(* process_all (run.py:20-59)                                              *)
(*                                                                         *)
(* An artifact file is absent, partial (opened for writing and not yet     *)
(* written to the end) or complete with its content.  A run can end at     *)
(* any point by an interrupt of the process, and a write can fail.         *)
(***************************************************************************)
MaxRuns == 2

Partial == [st |-> "partial", data |-> <<>>]
Complete(data) == [st |-> "complete", data |-> data]

\* The configurations the runs are made on (load_protocols, load_templates;
\* the attributes are Attributes).
Configs ==
    { [templates |-> [T1 |-> Template("T1", Fragments.one, <<>>)],
       protocols |-> <<Protocol("p1", Some("T1"), Fragments.one, <<>>, <<>>)>>],
      [templates |-> [T1 |-> Template("T1", Fragments.none, <<>>)],
       protocols |-> <<Protocol("p1", None, Fragments.two,
                                <<Readout("r1", Fragments.one, FALSE)>>,
                                <<Assay("x3", Fragments.none,
                                        <<Screener("s3", <<Some(9)>>, <<>>)>>)>>)>>],
      [templates |-> [T1 |-> Template("T1", Fragments.none, <<>>)],
       protocols |-> <<Protocol("p1", None, Fragments.none, <<>>, <<>>),
                       Protocol("p2", Some("T1"), Fragments.two, <<>>, <<>>)>>] }

\* generate_term_dict (parser.py:109-125): the keys of the dictionary.
TermKeys(f) == {f.terms[i].id : i \in 1..Len(f.terms)}
generate_term_dict(prots, tmpls, gattrs) ==
    UNION {TermKeys(gattrs[a]) : a \in DOMAIN gattrs}
    \cup UNION {TermKeys(tmpls[t]) \cup UNION {TermKeys(ro) : ro \in Range(tmpls[t].readouts)} :
                t \in DOMAIN tmpls}
    \cup UNION {TermKeys(q) \cup UNION {TermKeys(ro) : ro \in Range(q.readouts)}
                           \cup UNION {TermKeys(a) : a \in Range(q.assays)} :
                q \in Range(prots)}

\* The run ends; what it leaves behind is fs.
EndRun(kind, e) ==
    /\ runs' = Append(runs, [kind |-> kind, exc |-> e, conf |-> conf])
    /\ rpc' = "idle"

\* Lines 20-26: the specification files are loaded.
StartRun ==
    /\ rpc = "idle"
    /\ Len(runs) < MaxRuns
    /\ conf' \in Configs
    /\ rpc' = "cache"
    /\ work' = <<>>
    /\ fetched' = EmptyDict
    /\ fetched_dict' = {}
    /\ uniprot_requests' = <<>>
    /\ chebi_requests' = <<>>
    /\ UNCHANGED <<runs, fs, merges, assayvars, concvars>>

\* Lines 27-33: the target file exists and is read to its end.
LoadCache ==
    /\ rpc = "cache"
    /\ fs.targets.st = "complete"
    /\ fetched' = fs.targets.data.targets
    /\ fetched_dict' = fs.targets.data.term_dict
    /\ rpc' = "merge"
    /\ UNCHANGED <<runs, conf, work, uniprot_requests, chebi_requests, fs, merges,
                   assayvars, concvars>>

\* Lines 27-30: the target file exists and ends before its end.
LoadBrokenCache ==
    /\ rpc = "cache"
    /\ fs.targets.st = "partial"
    /\ EndRun("failed", [type |-> "EOFError", arg |-> "targets.json.gz"])
    /\ UNCHANGED <<conf, work, fetched, fetched_dict, uniprot_requests,
                   chebi_requests, fs, merges, assayvars, concvars>>

\* Lines 34-36 and parser.py:85-89: fetch_target_terms is entered.
StartFetch ==
    /\ rpc = "cache"
    /\ fs.targets.st = "absent"
    /\ work' = TargetOccurrences(conf)
    /\ rpc' = "fetch"
    /\ UNCHANGED <<runs, conf, fetched, fetched_dict, uniprot_requests,
                   chebi_requests, fs, merges, assayvars, concvars>>

\* An exception of a lookup is not caught anywhere up to process_all.
MutSwallowed(e) == FALSE
Propagates(e) == e # NoExc

\* parser.py:78-82: one iteration of _fetch_targets.
FetchTarget ==
    /\ rpc = "fetch"
    /\ Len(work) > 0
    /\ \E answer \in UniProtAnswers : \E failAt \in 0..2 :
       \E chebiAnswer \in ChebiAnswers \ {"ok"} :
          LET acc == Head(work)
              r == uniprot_target_terms(acc, answer, failAt, chebiAnswer)
          IN  /\ uniprot_requests' =
                    Append(uniprot_requests, [id |-> acc, ok |-> answer = "ok"])
              /\ chebi_requests' = chebi_requests \o r.asked
              /\ IF Propagates(r.exc)
                 THEN /\ EndRun("failed", r.exc)
                      /\ UNCHANGED <<work, fetched, fetched_dict>>
                 ELSE /\ fetched' = Put(fetched, acc, r.termids)
                      /\ fetched_dict' = fetched_dict \cup r.term_name
                      /\ work' = Tail(work)
                      /\ UNCHANGED <<runs, rpc>>
    /\ UNCHANGED <<conf, fs, merges, assayvars, concvars>>

\* parser.py:100-101 and run.py:37-44: fetch_target_terms returns and the
\* target file is opened for writing at its final path.
OpenTargets ==
    /\ rpc = "fetch"
    /\ Len(work) = 0
    /\ fs' = [fs EXCEPT !.targets = Partial]
    /\ rpc' = "dump_targets"
    /\ UNCHANGED <<runs, conf, work, fetched, fetched_dict, uniprot_requests,
                   chebi_requests, merges, assayvars, concvars>>

\* Lines 45-46: the target file is written to its end and closed.
DumpTargets ==
    /\ rpc = "dump_targets"
    /\ fs' = [fs EXCEPT !.targets =
                  Complete([targets |-> fetched, term_dict |-> fetched_dict])]
    /\ rpc' = "merge"
    /\ UNCHANGED <<runs, conf, work, fetched, fetched_dict, uniprot_requests,
                   chebi_requests, merges, assayvars, concvars>>

\* Lines 48-54: the term dictionary, the merge, and the assay file opened.
Merge ==
    /\ rpc = "merge"
    /\ LET out == generate_assays(conf.protocols, conf.templates, Attributes, fetched)
       IN  /\ merges' = Append(merges, [conf |-> conf, target_term |-> fetched,
                                         outcome |-> out])
           /\ IF out.kind = "raised"
              THEN EndRun("failed", out.exc) /\ UNCHANGED fs
              ELSE /\ fs' = [fs EXCEPT !.assays = Partial]
                   /\ rpc' = "dump_assays"
                   /\ UNCHANGED runs
    /\ UNCHANGED <<conf, work, fetched, fetched_dict, uniprot_requests,
                   chebi_requests, assayvars, concvars>>

\* Lines 55-57: the assay file is written, the term dictionary file opened.
DumpAssays ==
    /\ rpc = "dump_assays"
    /\ fs' = [fs EXCEPT !.assays = Complete(merges[Len(merges)].outcome.rcds),
                         !.termdict = Partial]
    /\ rpc' = "dump_termdict"
    /\ UNCHANGED <<runs, conf, work, fetched, fetched_dict, uniprot_requests,
                   chebi_requests, merges, assayvars, concvars>>

\* Lines 58-59: the term dictionary file is written; the run is done.
DumpTermdict ==
    /\ rpc = "dump_termdict"
    /\ fs' = [fs EXCEPT !.termdict =
                  Complete(generate_term_dict(conf.protocols, conf.templates,
                                              Attributes) \cup fetched_dict)]
    /\ EndRun("done", NoExc)
    /\ UNCHANGED <<conf, work, fetched, fetched_dict, uniprot_requests,
                   chebi_requests, merges, assayvars, concvars>>

\* json.dump into the open file raises (lines 45, 55, 58): the file stays
\* as far as it was written.
DumpFails ==
    /\ rpc \in {"dump_targets", "dump_assays", "dump_termdict"}
    /\ EndRun("failed", [type |-> "OSError", arg |-> rpc])
    /\ UNCHANGED <<conf, work, fetched, fetched_dict, uniprot_requests,
                   chebi_requests, fs, merges, assayvars, concvars>>

\* The process is interrupted.
Interrupt ==
    /\ rpc # "idle"
    /\ EndRun("interrupted", [type |-> "KeyboardInterrupt", arg |-> rpc])
    /\ UNCHANGED <<conf, work, fetched, fetched_dict, uniprot_requests,
                   chebi_requests, fs, merges, assayvars, concvars>>

InitRun ==
    /\ AssaysAtRest
    /\ ConcAtRest
    /\ rpc = "idle"
    /\ runs = <<>>
    /\ conf = [protocols |-> <<>>, templates |-> EmptyDict]
    /\ work = <<>>
    /\ fetched = EmptyDict
    /\ fetched_dict = {}
    /\ uniprot_requests = <<>>
    /\ chebi_requests = <<>>
    /\ fs = EmptyDir
    /\ merges = <<>>

NextRun ==
    \/ StartRun \/ LoadCache \/ LoadBrokenCache \/ StartFetch \/ FetchTarget
    \/ OpenTargets \/ DumpTargets \/ Merge \/ DumpAssays \/ DumpTermdict
    \/ DumpFails \/ Interrupt

SpecRun == InitRun /\ [][NextRun]_vars

(***************************************************************************)
(* C14.  Request deduplication: in one enrichment phase at most one        *)
(* request is sent to UniProt per distinct accession id and at most one    *)
(* name lookup per distinct ChEBI id.                                      *)
(***************************************************************************)
NoTwoFor(log) == \A i, j \in 1..Len(log) : log[i].id = log[j].id => i = j

C14_RequestsDeduplicated ==
    /\ NoTwoFor(uniprot_requests)
    /\ NoTwoFor(chebi_requests)

\* Each half alone.
OneRequestPerAccession == NoTwoFor(uniprot_requests)
OneLookupPerChebiId == NoTwoFor(chebi_requests)

(***************************************************************************)
(* C15.  Atomic artifacts: at every point of every run, each artifact at   *)
(* its final location is either absent or complete.                        *)
(***************************************************************************)
C15_AtomicArtifacts ==
    /\ fs.targets.st \in {"absent", "complete"}
    /\ fs.assays.st \in {"absent", "complete"}
    /\ fs.termdict.st \in {"absent", "complete"}

\* A later run never finds a partial target file where it looks for the cache.
NoPartialCacheFound == ~(rpc = "cache" /\ fs.targets.st = "partial")

(***************************************************************************)
(* C16.  No partial term set: when a lookup of the enrichment phase fails  *)
(* (a request error or an answer of unexpected shape), the phase and the   *)
(* run end with that failure at once, no file is written and no merge is   *)
(* made; the phase returns, and a target file is written, only with the    *)
(* term lists of every declared accession and a name for every term.       *)
(***************************************************************************)
FailedLookup ==
    \/ \E i \in 1..Len(uniprot_requests) : ~uniprot_requests[i].ok
    \/ \E i \in 1..Len(chebi_requests) : ~chebi_requests[i].ok

\* The term lists UniProt has for an accession.
AllTermIds(acc) ==
    [Function |-> GoTerms(UniProtEntry[acc].go, "Function"),
     Process |-> GoTerms(UniProtEntry[acc].go, "Process"),
     Component |-> GoTerms(UniProtEntry[acc].go, "Component"),
     ChEBI |-> [i \in 1..Len(UniProtEntry[acc].chebi) |-> Str(UniProtEntry[acc].chebi[i])]]

TermSetComplete(c, tt, names) ==
    /\ DOMAIN tt = Range(TargetOccurrences(c))
    /\ \A acc \in DOMAIN tt :
          /\ acc \in DOMAIN UniProtEntry
          /\ tt[acc] = AllTermIds(acc)
          /\ \A t \in Range(tt[acc].Function) \cup Range(tt[acc].Process)
                       \cup Range(tt[acc].Component) \cup Range(tt[acc].ChEBI) :
                t.id \in names

C16_NoPartialTermSet ==
    [][ /\ FailedLookup' =>
              /\ rpc' = "idle"
              /\ runs'[Len(runs')].kind = "failed"
              /\ runs'[Len(runs')].exc.type
                    \in {"RequestException", "KeyError", "ValueError"}
        /\ (~FailedLookup /\ FailedLookup') =>
              /\ rpc = "fetch"
              /\ fs' = fs
              /\ merges' = merges
              /\ Len(runs') = Len(runs) + 1
        /\ (rpc = "fetch" /\ rpc' = "dump_targets") =>
              /\ ~FailedLookup
              /\ TermSetComplete(conf, fetched, fetched_dict)
        /\ (fs'.targets # fs.targets /\ fs'.targets.st = "complete") =>
              TermSetComplete(conf, fs'.targets.data.targets,
                              fs'.targets.data.term_dict)
      ]_vars

\* The second accession's name lookup failed after the first accession was
\* fetched: the run has ended and left no file.
C16_Witness ==
    /\ rpc = "idle"
    /\ Len(uniprot_requests) = 2
    /\ uniprot_requests[1].ok /\ uniprot_requests[2].ok
    /\ \E i \in 1..Len(chebi_requests) : ~chebi_requests[i].ok
    /\ Len(runs) = 1
    /\ runs[1].kind = "failed"
    /\ fs = EmptyDir

(***************************************************************************)
(* C20.  Target-term coverage across runs: the mapping process_all passes  *)
(* to generate_assays, fetched or loaded from the cache of an earlier run, *)
(* has an entry for every accession declared in a template, a template     *)
(* readout, a protocol or a protocol readout, and the merge does not fail  *)
(* on a missing accession.                                                 *)
(***************************************************************************)
DeclaredAccessions(c) == Range(TargetOccurrences(c))

C20_TargetTermCoverage ==
    \A k \in 1..Len(merges) :
        /\ DeclaredAccessions(merges[k].conf) \subseteq DOMAIN merges[k].target_term
        /\ ~(/\ merges[k].outcome.kind = "raised"
              /\ merges[k].outcome.exc.type = "KeyError"
              /\ merges[k].outcome.exc.arg \in DeclaredAccessions(merges[k].conf))

\* A mapping that was fetched in this run covers the configuration.
FetchedCovers ==
    rpc = "dump_targets" => DeclaredAccessions(conf) \subseteq DOMAIN fetched

====
